---- MODULE Spec2Model ----
(***************************************************************************)
(* A model of src/app.js: the three.js tutorial that builds a scene        *)
(* (background, camera, three lights), starts an asynchronous glTF load    *)
(* and spins the loaded model in the renderer's animation loop.            *)
(*                                                                         *)
(* JavaScript objects live in a heap (reference -> record); the module     *)
(* level variables scene, camera, model and renderer hold references or    *)
(* undefined.  Numbers that are not integers (0.5, time / 2000,            *)
(* WIDTH / HEIGHT) are exact fractions in lowest terms.                    *)
(***************************************************************************)
EXTENDS Integers, Sequences, FiniteSets, TLC

VARIABLES
    WIDTH,          \* window.innerWidth, read once at startup
    HEIGHT,         \* window.innerHeight, read once at startup
    pc,             \* position of init() in its sequence of calls
    callLog,        \* the functions init() has called so far, in order
    heap,           \* reference -> object
    scene,          \* let scene
    camera,         \* let camera
    model,          \* let model
    renderer,       \* let renderer
    loadState,      \* the GLTFLoader request: idle, pending, loaded, failed
    loadAttempts,   \* number of loader.load calls issued
    successCallbacks, \* number of times the onLoad callback has run
    insertions,     \* number of scene.add(model) calls made
    frameCount,     \* number of animate invocations
    drawCount,      \* number of renderer.render(scene, camera) calls
    lastFrame,      \* the latest animate invocation: its time, what it saw
    error,          \* an uncaught exception raised by a handler, or "none"
    settledAtFrame  \* frameCount when the load succeeded or failed

vars == <<WIDTH, HEIGHT, pc, callLog, heap, scene, camera, model, renderer,
          loadState, loadAttempts, successCallbacks, insertions, frameCount,
          drawCount, lastFrame, error, settledAtFrame>>

(***************************************************************************)
(* Bounds of the model.                                                    *)
(***************************************************************************)
MaxFrames == 4

\* Viewport sizes the window may have at startup.
Widths == {800, 1024, 1080}
Heights == {600, 768, 1080}

\* Time stamps (milliseconds) the host's animation loop may pass to animate.
Times == {0, 1, 1000, 2000, 3000, 6283}

(***************************************************************************)
(* Program constants.                                                      *)
(***************************************************************************)
FOV == 45
NEAR == 1
FAR == 1000

CAMERA_X == 0
CAMERA_Y == 10
CAMERA_Z == 17

MODEL_X == 0
MODEL_Y == 10
MODEL_Z == 10

BACKGROUND_IMG_PATH == "materials/space.jpg"
MODEL_GLTF_PATH == "materials/shine.gltf"

LIGHT_INTENSITY == 5
AMBIENT_COLOR == 16777215
DIRECTIONAL_COLOR == 16766720

ROTATE_X_DELAY == 2000
ROTATE_Y_DELAY == 1000

Undefined == "undefined"

(***************************************************************************)
(* Exact arithmetic on fractions.                                          *)
(***************************************************************************)
RECURSIVE GCD(_, _)
GCD(a, b) == IF b = 0 THEN a ELSE GCD(b, a % b)

Abs(n) == IF n < 0 THEN -n ELSE n

\* The fraction n / d (d > 0) in lowest terms.
Frac(n, d) ==
    LET g == GCD(Abs(n), d)
    IN  [num |-> n \div g, den |-> d \div g]

FracAdd(p, q) == Frac(p.num * q.den + q.num * p.den, p.den * q.den)

Whole(n) == Frac(n, 1)

\* MODEL_SCALE = 0.5
MODEL_SCALE == Frac(1, 2)

(***************************************************************************)
(* The three.js objects the program creates, at construction.              *)
(***************************************************************************)
NewScene == [type |-> "Scene", background |-> Undefined, children |-> << >>]

NewPerspectiveCamera(fov, aspect, near, far) ==
    [type |-> "PerspectiveCamera", fov |-> fov, aspect |-> aspect,
     near |-> near, far |-> far, position |-> <<0, 0, 0>>]

NewLight(type, color, intensity) ==
    [type |-> type, color |-> color, intensity |-> intensity,
     position |-> <<0, 0, 0>>]

\* gltf.scene as the loader hands it to the callback: a Group with the
\* default transform.
GltfScene ==
    [type |-> "Group",
     scale |-> <<Whole(1), Whole(1), Whole(1)>>,
     position |-> <<0, 0, 0>>,
     rotation |-> [x |-> Whole(0), y |-> Whole(0), z |-> Whole(0)]]

\* Object3D.add: the object is appended to the children, once.
SceneAdd(h, ref) ==
    [h EXCEPT ![scene].children =
        Append(SelectSeq(@, LAMBDA c : c # ref), ref)]

Alloc(h, ref, obj) == (ref :> obj) @@ h

(***************************************************************************)
(* init(): the calls it makes, in order.                                   *)
(***************************************************************************)
InitSequenceLightsLast ==
    <<"createScene", "configureCamera", "addModel", "renderScene", "setUpLight">>

InitSequence ==
    <<"createScene", "configureCamera", "setUpLight", "addModel", "renderScene">>

InitDone == pc > Len(InitSequence)

AtCall(f) == pc <= Len(InitSequence) /\ InitSequence[pc] = f

Called(f) ==
    /\ pc' = pc + 1
    /\ callLog' = Append(callLog, f)

Init ==
    /\ WIDTH \in Widths
    /\ HEIGHT \in Heights
    /\ pc = 1
    /\ callLog = << >>
    /\ heap = << >>
    /\ scene = Undefined
    /\ camera = Undefined
    /\ model = Undefined
    /\ renderer = Undefined
    /\ loadState = "idle"
    /\ loadAttempts = 0
    /\ successCallbacks = 0
    /\ insertions = 0
    /\ frameCount = 0
    /\ drawCount = 0
    /\ lastFrame = [time |-> 0, modelPresent |-> FALSE]
    /\ error = "none"
    /\ settledAtFrame = 0

CreateScene ==
    /\ AtCall("createScene")
    /\ Called("createScene")
    /\ scene' = "scene"
    /\ heap' = Alloc(Alloc(heap, "texture", [type |-> "Texture", path |-> BACKGROUND_IMG_PATH]),
                     "scene", [NewScene EXCEPT !.background = "texture"])
    /\ UNCHANGED <<WIDTH, HEIGHT, camera, model, renderer, loadState,
                   loadAttempts, successCallbacks, insertions, frameCount,
                   drawCount, lastFrame, error, settledAtFrame>>

ConfigureCameraInverted ==
    /\ AtCall("configureCamera")
    /\ Called("configureCamera")
    /\ camera' = "camera"
    /\ heap' = Alloc(heap, "camera",
                     [NewPerspectiveCamera(FOV, Frac(HEIGHT, WIDTH), NEAR, FAR)
                        EXCEPT !.position = <<CAMERA_X, CAMERA_Y, CAMERA_Z>>])
    /\ UNCHANGED <<WIDTH, HEIGHT, scene, model, renderer, loadState,
                   loadAttempts, successCallbacks, insertions, frameCount,
                   drawCount, lastFrame, error, settledAtFrame>>

ConfigureCamera ==
    /\ AtCall("configureCamera")
    /\ Called("configureCamera")
    /\ camera' = "camera"
    /\ heap' = Alloc(heap, "camera",
                     [NewPerspectiveCamera(FOV, Frac(WIDTH, HEIGHT), NEAR, FAR)
                        EXCEPT !.position = <<CAMERA_X, CAMERA_Y, CAMERA_Z>>])
    /\ UNCHANGED <<WIDTH, HEIGHT, scene, model, renderer, loadState,
                   loadAttempts, successCallbacks, insertions, frameCount,
                   drawCount, lastFrame, error, settledAtFrame>>

\* The lights setUpLight creates, given the z offset of the second
\* directional light.
LightsAdded(h, dz2) ==
    LET ambientLight ==
            [NewLight("AmbientLight", AMBIENT_COLOR, LIGHT_INTENSITY)
                EXCEPT !.position = <<MODEL_X, MODEL_Y, MODEL_Z>>]
        directionalLight ==
            [NewLight("DirectionalLight", DIRECTIONAL_COLOR, LIGHT_INTENSITY)
                EXCEPT !.position = <<MODEL_X, MODEL_Y, MODEL_Z + 1>>]
        directionalLight2 ==
            [NewLight("DirectionalLight", DIRECTIONAL_COLOR, LIGHT_INTENSITY)
                EXCEPT !.position = <<MODEL_X, MODEL_Y, MODEL_Z + dz2>>]
        h1 == SceneAdd(Alloc(h, "ambientLight", ambientLight), "ambientLight")
        h2 == SceneAdd(Alloc(h1, "directionalLight", directionalLight), "directionalLight")
    IN  SceneAdd(Alloc(h2, "directionalLight2", directionalLight2), "directionalLight2")

SetUpLightSamePosition ==
    /\ AtCall("setUpLight")
    /\ scene # Undefined
    /\ Called("setUpLight")
    /\ heap' = LightsAdded(heap, 1)
    /\ UNCHANGED <<WIDTH, HEIGHT, scene, camera, model, renderer, loadState,
                   loadAttempts, successCallbacks, insertions, frameCount,
                   drawCount, lastFrame, error, settledAtFrame>>

SetUpLight ==
    /\ AtCall("setUpLight")
    /\ scene # Undefined
    /\ Called("setUpLight")
    /\ heap' = LightsAdded(heap, -1)
    /\ UNCHANGED <<WIDTH, HEIGHT, scene, camera, model, renderer, loadState,
                   loadAttempts, successCallbacks, insertions, frameCount,
                   drawCount, lastFrame, error, settledAtFrame>>

\* A placeholder model is created and inserted before the load completes.
AddModelEager ==
    /\ AtCall("addModel")
    /\ scene # Undefined
    /\ Called("addModel")
    /\ heap' = SceneAdd(Alloc(Alloc(heap, "loader", [type |-> "GLTFLoader", url |-> MODEL_GLTF_PATH,
                                      onLoad |-> TRUE, onError |-> FALSE]),
                              "gltfScene", GltfScene), "gltfScene")
    /\ model' = "gltfScene"
    /\ loadState' = "pending"
    /\ loadAttempts' = loadAttempts + 1
    /\ UNCHANGED <<WIDTH, HEIGHT, scene, camera, renderer,
                   successCallbacks, insertions, frameCount,
                   drawCount, lastFrame, error, settledAtFrame>>

\* loader.load(MODEL_GLTF_PATH, callback): the request is issued, with a
\* success callback and no error callback; nothing else happens yet.
AddModel ==
    /\ AtCall("addModel")
    /\ Called("addModel")
    /\ heap' = Alloc(heap, "loader", [type |-> "GLTFLoader", url |-> MODEL_GLTF_PATH,
                                      onLoad |-> TRUE, onError |-> FALSE])
    /\ loadState' = "pending"
    /\ loadAttempts' = loadAttempts + 1
    /\ UNCHANGED <<WIDTH, HEIGHT, scene, camera, model, renderer,
                   successCallbacks, insertions, frameCount,
                   drawCount, lastFrame, error, settledAtFrame>>

RenderScene ==
    /\ AtCall("renderScene")
    /\ Called("renderScene")
    /\ renderer' = "renderer"
    /\ heap' = Alloc(heap, "renderer",
                     [type |-> "WebGLRenderer", antialias |-> TRUE,
                      size |-> <<WIDTH, HEIGHT>>, animationLoop |-> "animate",
                      attached |-> TRUE])
    /\ UNCHANGED <<WIDTH, HEIGHT, scene, camera, model, loadState,
                   loadAttempts, successCallbacks, insertions, frameCount,
                   drawCount, lastFrame, error, settledAtFrame>>

(***************************************************************************)
(* The load callback.  It runs on a later turn of the event loop, so never *)
(* before init() has returned, and it runs to completion.                  *)
(***************************************************************************)
\* The callback's body on the heap: model = gltf.scene, scale, position,
\* scene.add(model).
OnLoad(h) ==
    SceneAdd(Alloc(h, "gltfScene",
                   [GltfScene EXCEPT
                        !.scale = <<MODEL_SCALE, MODEL_SCALE, MODEL_SCALE>>,
                        !.position = <<MODEL_X, MODEL_Y, MODEL_Z>>]),
             "gltfScene")

\* The request stays pending after the callback, so the callback runs again.
LoadSuccessRepeated ==
    /\ InitDone
    /\ loadState = "pending"
    /\ successCallbacks < MaxFrames
    /\ loadState' = "pending"
    /\ successCallbacks' = successCallbacks + 1
    /\ model' = "gltfScene"
    /\ heap' = OnLoad(heap)
    /\ insertions' = insertions + 1
    /\ settledAtFrame' = frameCount
    /\ UNCHANGED <<WIDTH, HEIGHT, pc, callLog, scene, camera, renderer,
                   loadAttempts, frameCount, drawCount, lastFrame, error>>

\* The callback inserts the model before it is scaled and positioned, and
\* leaves the transform for a later turn that never comes.
LoadSuccessUnplaced ==
    /\ InitDone
    /\ loadState = "pending"
    /\ loadState' = "loaded"
    /\ successCallbacks' = successCallbacks + 1
    /\ model' = "gltfScene"
    /\ heap' = SceneAdd(Alloc(heap, "gltfScene", GltfScene), "gltfScene")
    /\ insertions' = insertions + 1
    /\ settledAtFrame' = frameCount
    /\ UNCHANGED <<WIDTH, HEIGHT, pc, callLog, scene, camera, renderer,
                   loadAttempts, frameCount, drawCount, lastFrame, error>>

LoadSuccess ==
    /\ InitDone
    /\ loadState = "pending"
    /\ loadState' = "loaded"
    /\ successCallbacks' = successCallbacks + 1
    /\ model' = "gltfScene"
    /\ heap' = OnLoad(heap)
    /\ insertions' = insertions + 1
    /\ settledAtFrame' = frameCount
    /\ UNCHANGED <<WIDTH, HEIGHT, pc, callLog, scene, camera, renderer,
                   loadAttempts, frameCount, drawCount, lastFrame, error>>

\* The load fails and the program issues the request again.
LoadFailureRetry ==
    /\ InitDone
    /\ loadState = "pending"
    /\ loadAttempts < MaxFrames
    /\ loadState' = "pending"
    /\ loadAttempts' = loadAttempts + 1
    /\ settledAtFrame' = frameCount
    /\ UNCHANGED <<WIDTH, HEIGHT, pc, callLog, heap, scene, camera, model,
                   renderer, successCallbacks, insertions, frameCount,
                   drawCount, lastFrame, error>>

\* The load fails.  loader.load was given no error callback, so the loader
\* reports the failure itself and none of the program's code runs.
LoadFailure ==
    /\ InitDone
    /\ loadState = "pending"
    /\ loadState' = "failed"
    /\ settledAtFrame' = frameCount
    /\ UNCHANGED <<WIDTH, HEIGHT, pc, callLog, heap, scene, camera, model,
                   renderer, loadAttempts, successCallbacks, insertions,
                   frameCount, drawCount, lastFrame, error>>

(***************************************************************************)
(* animate(time): the animation loop's callback.                           *)
(***************************************************************************)
\* if (model && model.rotation)
ModelPresent == model # Undefined /\ "rotation" \in DOMAIN heap[model]

\* x and y are exchanged.
ApplyRotationSwapped(obj, time) ==
    [obj EXCEPT !.rotation.x = Frac(time, ROTATE_Y_DELAY),
                !.rotation.y = Frac(time, ROTATE_X_DELAY)]

\* The angle is added to the one of the previous frame.
ApplyRotationAccumulated(obj, time) ==
    [obj EXCEPT !.rotation.x = FracAdd(@, Frac(time, ROTATE_X_DELAY)),
                !.rotation.y = FracAdd(@, Frac(time, ROTATE_Y_DELAY))]

\* model.rotation.x = time / ROTATE_X_DELAY; model.rotation.y = time / ROTATE_Y_DELAY
ApplyRotation(obj, time) ==
    [obj EXCEPT !.rotation.x = Frac(time, ROTATE_X_DELAY),
                !.rotation.y = Frac(time, ROTATE_Y_DELAY)]

\* The host calls the registered loop once init() has returned, with
\* increasing time stamps, and stops calling it after an uncaught exception.
AnimateCalled(time) ==
    /\ InitDone
    /\ renderer # Undefined
    /\ heap[renderer].animationLoop = "animate"
    /\ error = "none"
    /\ frameCount < MaxFrames
    /\ frameCount > 0 => time > lastFrame.time

\* The presence check is missing: the rotation is written through an
\* undefined model, which throws before the draw.
AnimateUnguarded(time) ==
    /\ AnimateCalled(time)
    /\ frameCount' = frameCount + 1
    /\ lastFrame' = [time |-> time, modelPresent |-> ModelPresent]
    /\ IF model = Undefined
         THEN /\ error' = "TypeError"
              /\ UNCHANGED <<heap, drawCount>>
         ELSE /\ heap' = [heap EXCEPT ![model] = ApplyRotation(@, time)]
              /\ drawCount' = drawCount + 1
              /\ UNCHANGED error
    /\ UNCHANGED <<WIDTH, HEIGHT, pc, callLog, scene, camera, model, renderer,
                   loadState, loadAttempts, successCallbacks, insertions,
                   settledAtFrame>>

\* The draw is inside the presence check.
AnimateDrawsWhenPresent(time) ==
    /\ AnimateCalled(time)
    /\ frameCount' = frameCount + 1
    /\ lastFrame' = [time |-> time, modelPresent |-> ModelPresent]
    /\ IF ModelPresent
         THEN /\ heap' = [heap EXCEPT ![model] = ApplyRotation(@, time)]
              /\ drawCount' = drawCount + 1
         ELSE UNCHANGED <<heap, drawCount>>
    /\ UNCHANGED <<WIDTH, HEIGHT, pc, callLog, scene, camera, model, renderer,
                   loadState, loadAttempts, successCallbacks, insertions, error,
                   settledAtFrame>>

Animate(time) ==
    /\ AnimateCalled(time)
    /\ frameCount' = frameCount + 1
    /\ lastFrame' = [time |-> time, modelPresent |-> ModelPresent]
    /\ heap' = IF ModelPresent
                 THEN [heap EXCEPT ![model] = ApplyRotation(@, time)]
                 ELSE heap
    /\ IF renderer = Undefined \/ scene = Undefined \/ camera = Undefined
         THEN error' = "TypeError" /\ UNCHANGED drawCount
         ELSE drawCount' = drawCount + 1 /\ UNCHANGED error
    /\ UNCHANGED <<WIDTH, HEIGHT, pc, callLog, scene, camera, model, renderer,
                   loadState, loadAttempts, successCallbacks, insertions,
                   settledAtFrame>>

Next ==
    \/ CreateScene
    \/ ConfigureCamera
    \/ SetUpLight
    \/ AddModel
    \/ RenderScene
    \/ LoadSuccess
    \/ LoadFailure
    \/ \E time \in Times : Animate(time)

Spec == Init /\ [][Next]_vars

(***************************************************************************)
(* What the claims read off a state.                                       *)
(***************************************************************************)
\* scene.children, empty while there is no scene.
Children == IF scene = Undefined THEN << >> ELSE heap[scene].children

\* The places of scene.children that hold an object of one of these types.
ChildrenOfType(types) ==
    {i \in 1..Len(Children) : heap[Children[i]].type \in types}

ModelNodes == ChildrenOfType({"Group"})

LightNodes == ChildrenOfType({"AmbientLight", "DirectionalLight"})

Half == [num |-> 1, den |-> 2]

Zero == [num |-> 0, den |-> 1]

\* The fraction q is exactly n / d.
IsQuotient(q, n, d) == q.den > 0 /\ q.num * d = n * q.den

\* This step is one invocation of animate.
AnimateStep == frameCount' # frameCount

(***************************************************************************)
(* C1.  Every invocation of animate, with the model absent or present,     *)
(* completes without raising an error and issues exactly one draw: the     *)
(* draws made so far are as many as the invocations, and no exception is   *)
(* pending.                                                                *)
(***************************************************************************)
C1_AnimateDrawsOnce ==
    /\ error = "none"
    /\ drawCount = frameCount

\* animate has run once while the model is still absent, and has drawn.
C1_Witness ==
    /\ frameCount = 1
    /\ model = Undefined
    /\ ~lastFrame.modelPresent
    /\ drawCount = 1

C3_AbsentUntilLoaded ==
    /\ [](loadState # "loaded" =>
            /\ model = Undefined
            /\ ModelNodes = {}
            /\ "gltfScene" \notin DOMAIN heap
            /\ ~lastFrame.modelPresent)
    /\ [][(AnimateStep /\ loadState # "loaded") =>
            /\ heap' = heap
            /\ model' = Undefined
            /\ drawCount' = drawCount + 1]_vars

\* Two frames have been drawn while the load is still pending.
C3_Witness ==
    /\ loadState = "pending"
    /\ frameCount >= 2
    /\ drawCount = frameCount
    /\ model = Undefined

(***************************************************************************)
(* C4.  The model is inserted into the scene at most once, as many times   *)
(* as the load callback has run (once after a successful load), and the    *)
(* scene holds that many model nodes whatever frames have run.             *)
(***************************************************************************)
C4_SingleInsertion ==
    /\ insertions <= 1
    /\ insertions = successCallbacks
    /\ Cardinality(ModelNodes) = insertions
    /\ (loadState = "loaded") = (insertions = 1)

\* Frames ran before the load and after it; the scene holds one model node.
C4_Witness ==
    /\ loadState = "loaded"
    /\ settledAtFrame >= 1
    /\ frameCount >= settledAtFrame + 2
    /\ Cardinality(ModelNodes) = 1

(***************************************************************************)
(* C5.  init calls createScene, configureCamera, setUpLight, addModel and  *)
(* renderScene in that order; at every animate invocation the scene, the   *)
(* camera, the three lights and the renderer exist while the model may be  *)
(* absent; the load callback never runs before setUpLight has finished.    *)
(***************************************************************************)
C5_InitOrder ==
    LET order == <<"createScene", "configureCamera", "setUpLight",
                   "addModel", "renderScene">>
    IN  /\ Len(callLog) <= Len(order)
        /\ callLog = SubSeq(order, 1, Len(callLog))
        /\ frameCount > 0 =>
              /\ callLog = order
              /\ scene # Undefined
              /\ camera # Undefined
              /\ renderer # Undefined
              /\ Cardinality(LightNodes) = 3
        /\ loadState \in {"loaded", "failed"} =>
              /\ Len(callLog) >= 3
              /\ Cardinality(LightNodes) = 3
        /\ renderer # Undefined => loadAttempts = 1

\* The first frame has run, with everything but the model in place.
C5_Witness ==
    /\ frameCount = 1
    /\ loadState = "pending"
    /\ model = Undefined
    /\ Cardinality(LightNodes) = 3
    /\ camera # Undefined

(***************************************************************************)
(* C6.  The load callback may run between any two frames, yet the model    *)
(* is present exactly when it is a member of the scene, and a present      *)
(* model already has uniform scale 0.5 and position (0, 10, 10).           *)
(***************************************************************************)
C6_NoPartialModel ==
    /\ (model # Undefined) = (ModelNodes # {})
    /\ model # Undefined =>
          /\ model \in DOMAIN heap
          /\ \E i \in ModelNodes : Children[i] = model
          /\ heap[model].scale = <<Half, Half, Half>>
          /\ heap[model].position = <<0, 10, 10>>
    /\ lastFrame.modelPresent => model # Undefined

\* The callback ran between two frames and the later frame saw the model.
C6_Witness ==
    /\ loadState = "loaded"
    /\ settledAtFrame >= 1
    /\ frameCount > settledAtFrame
    /\ lastFrame.modelPresent

(***************************************************************************)
(* C7.  Model rotation is a function of the latest frame's time alone.     *)
(* As claimed: in every state in which the model is present, its rotation  *)
(* is (t/2000, t/1000) for the time t of the latest frame.                 *)
(***************************************************************************)
C7_Original ==
    (model # Undefined /\ frameCount > 0) =>
        /\ IsQuotient(heap[model].rotation.x, lastFrame.time, 2000)
        /\ IsQuotient(heap[model].rotation.y, lastFrame.time, 1000)

(***************************************************************************)
(* C7, amended.  In every state in which the model is present and a frame  *)
(* has run since it was loaded, its rotation is (t/2000, t/1000) for the   *)
(* time t of the latest frame, whatever the earlier frames were; until     *)
(* the first such frame the rotation is the loaded node's own (0, 0).      *)
(***************************************************************************)
C7_RotationStateless ==
    model # Undefined =>
        /\ heap[model].rotation.z = Zero
        /\ IF frameCount > settledAtFrame
             THEN /\ lastFrame.modelPresent
                  /\ IsQuotient(heap[model].rotation.x, lastFrame.time, 2000)
                  /\ IsQuotient(heap[model].rotation.y, lastFrame.time, 1000)
             ELSE /\ heap[model].rotation.x = Zero
                  /\ heap[model].rotation.y = Zero

\* At least two frames have rotated the model, the latest at a time > 0.
C7_Witness ==
    /\ model # Undefined
    /\ frameCount >= settledAtFrame + 2
    /\ lastFrame.time > 0
    /\ heap[model].rotation.x # Zero

(***************************************************************************)
(* C8.  One load attempt is made.  If the load fails, no retry is issued,  *)
(* no error callback of the program handles it, the model stays absent in  *)
(* every later state, and animate keeps drawing without error and without  *)
(* writing a rotation.                                                     *)
(***************************************************************************)
C8_NoRetry ==
    /\ [](/\ loadAttempts <= 1
          /\ loadState # "idle" => loadAttempts = 1 /\ ~heap["loader"].onError
          /\ loadState = "failed" =>
                /\ model = Undefined
                /\ ModelNodes = {}
                /\ successCallbacks = 0
                /\ error = "none"
                /\ drawCount = frameCount
                /\ ~lastFrame.modelPresent)
    /\ [][loadState = "failed" =>
            /\ loadState' = "failed"
            /\ loadAttempts' = loadAttempts
            /\ model' = Undefined
            /\ AnimateStep => heap' = heap /\ drawCount' = drawCount + 1]_vars

\* The load has failed and two frames have been drawn since.
C8_Witness ==
    /\ loadState = "failed"
    /\ frameCount >= settledAtFrame + 2
    /\ drawCount = frameCount

(***************************************************************************)
(* C9.  After setUpLight the scene holds exactly 3 lights: an ambient      *)
(* light at (0, 10, 10) and two directional lights of the same colour and  *)
(* intensity at (0, 10, 11) and (0, 10, 9); the set stays so, also after   *)
(* the model is inserted.                                                  *)
(***************************************************************************)
C9_ThreeLights ==
    LET lights == {heap[Children[i]] : i \in LightNodes}
        ambient == {l \in lights : l.type = "AmbientLight"}
        directional == {l \in lights : l.type = "DirectionalLight"}
    IN  IF Len(callLog) >= 3
          THEN /\ Cardinality(LightNodes) = 3
               /\ Cardinality(ambient) = 1
               /\ Cardinality(directional) = 2
               /\ \A l \in ambient : l.position = <<0, 10, 10>>
               /\ {l.position : l \in directional} = {<<0, 10, 11>>, <<0, 10, 9>>}
               /\ \A k, l \in directional :
                      k.color = l.color /\ k.intensity = l.intensity
          ELSE LightNodes = {}

\* The model has been inserted next to the three lights.
C9_Witness ==
    /\ model # Undefined
    /\ Len(Children) = 4
    /\ Cardinality(LightNodes) = 3

(***************************************************************************)
(* C10.  Once created, the camera (fov 45, near 1, far 1000, aspect =      *)
(* width / height, position (0, 10, 17)) and the three lights are never    *)
(* changed, and animate changes nothing but the model's X and Y rotation.  *)
(***************************************************************************)
C10_CameraAndLightsFixed ==
    /\ [](camera # Undefined =>
            LET c == heap[camera]
            IN  /\ c.fov = 45 /\ c.near = 1 /\ c.far = 1000
                /\ IsQuotient(c.aspect, WIDTH, HEIGHT)
                /\ c.position = <<0, 10, 17>>)
    /\ [][/\ WIDTH' = WIDTH /\ HEIGHT' = HEIGHT
          /\ camera # Undefined => camera' = camera /\ heap'[camera] = heap[camera]
          /\ \A i \in LightNodes :
                /\ Children[i] \in DOMAIN heap'
                /\ heap'[Children[i]] = heap[Children[i]]
          /\ AnimateStep =>
                /\ scene' = scene /\ camera' = camera /\ model' = model
                /\ renderer' = renderer
                /\ DOMAIN heap' = DOMAIN heap
                /\ \A r \in DOMAIN heap : r # model => heap'[r] = heap[r]
                /\ ModelPresent =>
                      heap'[model] =
                          [heap[model] EXCEPT
                              !.rotation.x = heap'[model].rotation.x,
                              !.rotation.y = heap'[model].rotation.y]]_vars

\* A frame has rotated the model in a viewport that is not square.
C10_Witness ==
    /\ WIDTH # HEIGHT
    /\ model # Undefined
    /\ frameCount > settledAtFrame
    /\ heap[model].rotation.x # Zero
    /\ heap[camera].position = <<0, 10, 17>>

====
